---- MODULE Spec2Model ----
(***************************************************************************)
(* A model of script.js, the page script of the Dota hero snapshot: the    *)
(* four caches filled by window.onload, the hero resolver GetHero, the     *)
(* win rate WinRate, the item pipeline SortItems / GetItems / MostBought / *)
(* MostBoughtItems, and the handlers SearchHero, RandomHero and UpdatePage *)
(* with their suspension on the item-popularity fetch.                     *)
(*                                                                         *)
(* JavaScript values are modelled as follows.  A string the code inspects  *)
(* (a name, a query) is a sequence of one-character strings.  An array or  *)
(* an object that may also be null is wrapped in a record: [arr |-> seq]   *)
(* for an array, [obj |-> function] for a lookup table.  null, undefined   *)
(* and the not-yet-written content of a page element are the records      *)
(* Null, Undefined and Initial.                                            *)
(***************************************************************************)
EXTENDS Integers, Sequences, FiniteSets, TLC

VARIABLES
    HERO_CONSTANTS, \* cache: hero id -> hero metadata, or Null
    ITEM_CONSTANTS, \* cache: item name -> item metadata, or Null
    ITEM_IDS,       \* cache: item id -> item name, or Null
    HERO_STATS,     \* cache: the roster, or Null
    onload,         \* position of window.onload
    dom,            \* the page elements the script writes
    calls,          \* the activations of UpdatePage, in the order they started
    picked,         \* the index RandomHero drew last, or Null
    arg,            \* function-level specifications: the argument
    ret             \* function-level specifications: the value returned

vars == <<HERO_CONSTANTS, ITEM_CONSTANTS, ITEM_IDS, HERO_STATS, onload, dom,
          calls, picked, arg, ret>>

Null == [tag |-> "null"]
Undefined == [tag |-> "undefined"]
Initial == [tag |-> "initial"]
Pending == [tag |-> "pending"]

(***************************************************************************)
(* Bounds of the model.                                                    *)
(***************************************************************************)
MaxRoster == 3
MaxPayload == 6
MaxPick == 1
MaxCalls == 2
RandDenom == 4

(***************************************************************************)
(* Strings.                                                                *)
(***************************************************************************)
\* A string of the model is a sequence of characters of Alphabet: the ASCII
\* letters, the other printable ASCII characters (but for the grave accent,
\* which no string literal holds) and ASCII white space.  On
\* these String.prototype.toLowerCase and toUpperCase map the 26 letters to
\* one another and leave every other character as it is.  The operators below
\* are functions on Alphabet: they give no value for a character outside it.
LowerChars ==
    <<"a", "b", "c", "d", "e", "f", "g", "h", "i", "j", "k", "l", "m", "n",
      "o", "p", "q", "r", "s", "t", "u", "v", "w", "x", "y", "z">>
UpperChars ==
    <<"A", "B", "C", "D", "E", "F", "G", "H", "I", "J", "K", "L", "M", "N",
      "O", "P", "Q", "R", "S", "T", "U", "V", "W", "X", "Y", "Z">>

OtherChars ==
    {"!", "\"", "#", "$", "%", "&", "'", "(", ")", "*", "+", ",", "-", ".",
     "/", "0", "1", "2", "3", "4", "5", "6", "7", "8", "9", ":", ";", "<",
     "=", ">", "?", "@", "[", "\\", "]", "^", "_", "{", "|", "}", "~"}

\* The white space and line terminators of ASCII, which String.prototype.trim
\* removes: blank, tab, line feed, carriage return, form feed, vertical tab.
WhiteSpace == {" ", "\t", "\n", "\r", "\f", ""}

Alphabet ==
    {LowerChars[k] : k \in 1..Len(LowerChars)}
        \cup {UpperChars[k] : k \in 1..Len(UpperChars)}
        \cup OtherChars \cup WhiteSpace

toLowerCaseChar(c) ==
    [a \in Alphabet |->
        IF \E k \in 1..Len(UpperChars) : UpperChars[k] = a
        THEN LowerChars[CHOOSE k \in 1..Len(UpperChars) : UpperChars[k] = a]
        ELSE a][c]

toUpperCaseChar(c) ==
    [a \in Alphabet |->
        IF \E k \in 1..Len(LowerChars) : LowerChars[k] = a
        THEN UpperChars[CHOOSE k \in 1..Len(LowerChars) : LowerChars[k] = a]
        ELSE a][c]

toLowerCase(s) == [k \in 1..Len(s) |-> toLowerCaseChar(s[k])]

toUpperCase(s) == [k \in 1..Len(s) |-> toUpperCaseChar(s[k])]

\* String.prototype.includes: q occurs in s as a contiguous run.
includes(s, q) ==
    \E k \in 0..(Len(s) - Len(q)) : SubSeq(s, k + 1, k + Len(q)) = q

\* String.prototype.slice(from, to) with 0 <= from, 0-based, to exclusive.
slice(s, from, to) ==
    SubSeq(s, from + 1, IF to < Len(s) THEN to ELSE Len(s))

isWhiteSpace(c) == [a \in Alphabet |-> a \in WhiteSpace][c]

RECURSIVE trimStart(_)
trimStart(s) ==
    IF s # <<>> /\ isWhiteSpace(Head(s)) THEN trimStart(Tail(s)) ELSE s

RECURSIVE trimEnd(_)
trimEnd(s) ==
    IF s # <<>> /\ isWhiteSpace(s[Len(s)])
    THEN trimEnd(SubSeq(s, 1, Len(s) - 1)) ELSE s

trim(s) == trimEnd(trimStart(s))

(***************************************************************************)
(* Hero records.                                                           *)
(***************************************************************************)
NamespacePrefix ==
    <<"n", "p", "c", "_", "d", "o", "t", "a", "_", "h", "e", "r", "o", "_">>

PrefixLen == 14

Brackets == 1..8

HeroRecord(id, localized, suffix, attr, picks, wins) ==
    [id |-> id, localized_name |-> localized, name |-> NamespacePrefix \o suffix,
     primary_attr |-> attr, pick |-> picks, win |-> wins]

NoGames == [b \in Brackets |-> 0]

Io == HeroRecord(91, <<"I", "o">>, <<"w", "i", "s", "p">>, "all",
                 [b \in Brackets |-> 1], [b \in Brackets |-> IF b <= 4 THEN 1 ELSE 0])
Lion == HeroRecord(26, <<"L", "i", "o", "n">>, <<"l", "i", "o", "n">>, "int",
                   [b \in Brackets |-> 20], [b \in Brackets |-> IF b <= 7 THEN 3 ELSE 2])
Axe == HeroRecord(2, <<"A", "x", "e">>, <<"a", "x", "e">>, "str", NoGames, NoGames)
Ox == HeroRecord(7, <<"O", "x">>, <<"o", "n", "i", "o", "n">>, "agi",
                   [b \in Brackets |-> 1], [b \in Brackets |-> 1])

HeroPool == {Io, Lion, Axe, Ox}

RECURSIVE SeqsUpTo(_, _)
SeqsUpTo(S, n) ==
    IF n = 0 THEN {<<>>}
    ELSE LET shorter == SeqsUpTo(S, n - 1)
         IN  shorter \cup {Append(s, x) : s \in shorter, x \in S}

Rosters == SeqsUpTo(HeroPool, MaxRoster)

Queries ==
    {<<"i", "o">>, <<"i">>, <<"o">>, <<"l", "i", "o", "n">>, <<"w", "i", "s">>,
     <<"x">>, <<"h", "e", "r", "o">>, <<"z">>, <<>>}

(***************************************************************************)
(* GetHero: the first hero of the roster the query matches, null when      *)
(* there is none.  Iterating a null roster throws a TypeError.             *)
(***************************************************************************)
TypeError == [tag |-> "TypeError"]

StrIo == <<"i", "o">>

RECURSIVE GetHeroFrom(_, _, _)
GetHeroFrom(query, roster, k) ==
    IF k > Len(roster) THEN Null
    ELSE LET hero == roster[k]
         IN  IF query = StrIo /\ toLowerCase(hero.localized_name) # StrIo
             THEN GetHeroFrom(query, roster, k + 1)
             ELSE IF \/ includes(toLowerCase(hero.localized_name), query)
                     \/ includes(slice(hero.name, PrefixLen, Len(hero.name)), query)
                  THEN hero
                  ELSE GetHeroFrom(query, roster, k + 1)

\* GetHero without its edge case for Io.
GetHeroNoEdgeCase(query) ==
    IF HERO_STATS = Null THEN TypeError
    ELSE LET roster == HERO_STATS.arr
             hits == {k \in 1..Len(roster) :
                         \/ includes(toLowerCase(roster[k].localized_name), query)
                         \/ includes(slice(roster[k].name, PrefixLen, Len(roster[k].name)),
                                     query)}
         IN  IF hits = {} THEN Null
             ELSE roster[CHOOSE k \in hits : \A j \in hits : k <= j]

\* GetHero reading the roster cache when it holds heroStats.
GetHeroIn(query, heroStats) ==
    IF heroStats = Null THEN TypeError ELSE GetHeroFrom(query, heroStats.arr, 1)

GetHero(query) == GetHeroIn(query, HERO_STATS)

(***************************************************************************)
(* WinRate.  The value is the string toFixed(2) returns: the quotient in   *)
(* hundredths of a percent when it is a number, "NaN" for 0/0 and          *)
(* "Infinity" for n/0.  The quotient and its product with 100 are Numbers, *)
(* IEEE 754 doubles: each is rounded to 53 significant binary digits, to   *)
(* the even neighbour on a tie, and toFixed rounds the double it is given, *)
(* not the exact quotient.  A value is held as its binary digits, most     *)
(* significant first, the last FractionDigits of them behind the point.    *)
(***************************************************************************)
RECURSIVE reduceSum(_, _)
reduceSum(counts, k) ==
    IF k > Len(counts) THEN 0 ELSE counts[k] + reduceSum(counts, k + 1)

MantissaBits == 53

\* Enough digits behind the point for the 53 digits and the rounding digit of
\* any quotient of two counts below 2^30.
FractionDigits == 32 + MantissaBits

Zeros(count) == [k \in 1..count |-> 0]

RECURSIVE binaryDigits(_)
binaryDigits(n) == IF n = 0 THEN <<>> ELSE Append(binaryDigits(n \div 2), n % 2)

\* The number the first count digits spell.
RECURSIVE digitsValue(_, _)
digitsValue(digits, count) ==
    IF count = 0 THEN 0 ELSE 2 * digitsValue(digits, count - 1) + digits[count]

\* What is left of rest / den behind its first count binary digits, rest < den.
RECURSIVE fractionRest(_, _, _)
fractionRest(rest, den, count) ==
    IF rest = 0 \/ count = 0 THEN rest
    ELSE IF count = 1 THEN (IF 2 * rest >= den THEN 2 * rest - den ELSE 2 * rest)
    ELSE fractionRest(fractionRest(rest, den, count \div 2), den,
                      count - count \div 2)

\* The first count binary digits of rest / den behind the point, rest < den.
RECURSIVE fractionDigits(_, _, _)
fractionDigits(rest, den, count) ==
    IF count = 0 THEN <<>>
    ELSE IF count = 1 THEN <<IF 2 * rest >= den THEN 1 ELSE 0>>
    ELSE fractionDigits(rest, den, count \div 2)
             \o fractionDigits(fractionRest(rest, den, count \div 2), den,
                               count - count \div 2)

\* The digit string plus one in its last place.
increment(digits) ==
    LET zeros == {k \in 1..Len(digits) : digits[k] = 0}
    IN  IF zeros = {} THEN <<1>> \o Zeros(Len(digits))
        ELSE LET last == CHOOSE k \in zeros : \A other \in zeros : other <= k
             IN  SubSeq(digits, 1, last - 1) \o <<1>> \o Zeros(Len(digits) - last)

\* The carry out of, and then the digits of, the sum of the digits first..last
\* of two digit strings and a carry.
RECURSIVE addDigits(_, _, _, _, _)
addDigits(a, b, first, last, carry) ==
    IF first = last
    THEN LET sum == a[last] + b[last] + carry IN <<sum \div 2, sum % 2>>
    ELSE LET middle == (first + last) \div 2
             low == addDigits(a, b, middle + 1, last, carry)
         IN  IF Head(low) = 1 THEN addDigits(a, b, first, middle, 1) \o Tail(low)
             ELSE addDigits(a, b, first, middle, 0) \o Tail(low)

\* The sum of two digit strings, b the longer one, one digit longer than b.
add(a, b) == addDigits(Zeros(Len(b) - Len(a)) \o a, b, 1, Len(b), 0)

\* 100 = 4 + 32 + 64.
times100(digits) ==
    add(digits \o Zeros(2), add(digits \o Zeros(5), digits \o Zeros(6)))

\* The digit string cut behind its digit keep and rounded there: the digit
\* behind it, the digits after that and inexact (something is left behind the
\* last digit) decide, a tie going to the even neighbour.
roundAt(digits, keep, inexact) ==
    IF keep >= Len(digits) THEN digits
    ELSE IF /\ digits[keep + 1] = 1
            /\ \/ inexact
               \/ digits[keep] = 1
               \/ \E k \in (keep + 2)..Len(digits) : digits[k] = 1
    THEN increment(SubSeq(digits, 1, keep)) \o Zeros(Len(digits) - keep)
    ELSE SubSeq(digits, 1, keep) \o Zeros(Len(digits) - keep)

\* The nearest double: 53 digits from the first 1 on.
roundToDouble(digits, inexact) ==
    LET ones == {k \in 1..Len(digits) : digits[k] = 1}
    IN  IF ones = {} THEN digits
        ELSE roundAt(digits,
                     (CHOOSE k \in ones : \A other \in ones : k <= other)
                         + MantissaBits - 1,
                     inexact)

\* Number.prototype.toFixed(2) of the number the digit string spells, in
\* hundredths: the digits of 100 times the number before the point, plus the
\* first digit behind it.
hundredths(scaled) ==
    digitsValue(scaled, Len(scaled) - FractionDigits)
        + scaled[Len(scaled) - FractionDigits + 1]

toFixed2(num, den) ==
    IF den = 0
    THEN IF num = 0 THEN [kind |-> "NaN"] ELSE [kind |-> "Infinity"]
    ELSE [kind |-> "number",
          hundredths |->
              hundredths(times100(roundToDouble(times100(roundToDouble(
                  binaryDigits(num \div den)
                      \o fractionDigits(num % den, den, FractionDigits),
                  fractionRest(num % den, den, FractionDigits) # 0)), FALSE)))]

WinRate(hero) ==
    LET picks == [i \in Brackets |-> hero.pick[i]]
        wins == [i \in Brackets |-> hero.win[i]]
        sum_picks == reduceSum(picks, 1)
        sum_wins == reduceSum(wins, 1)
    IN  toFixed2(sum_wins, sum_picks)

(***************************************************************************)
(* The item tables the constants endpoint serves.  Id 900 has no entry in  *)
(* the id table and id 901 names an item the item table does not hold.     *)
(***************************************************************************)
ItemRecord(id, img, components) ==
    [id |-> id, img |-> img, components |-> components]

ItemIdsTable ==
    (1 :> "blink") @@ (41 :> "bottle") @@ (609 :> "aghanims_shard") @@
    (36 :> "magic_wand") @@ (48 :> "travel_boots") @@ (63 :> "power_treads") @@
    (16 :> "branches") @@ (29 :> "boots") @@ (42 :> "ward_observer") @@
    (44 :> "tango") @@ (46 :> "tpscroll") @@ (20 :> "circlet") @@
    (901 :> "retired")

ItemConstantsTable ==
    ("blink" :> ItemRecord(1, "blink.png", Null)) @@
    ("bottle" :> ItemRecord(41, "bottle.png", Null)) @@
    ("aghanims_shard" :> ItemRecord(609, "aghanims_shard.png", Null)) @@
    ("magic_wand" :> ItemRecord(36, "magic_wand.png",
                                 [arr |-> <<"magic_stick", "branches">>])) @@
    ("travel_boots" :> ItemRecord(48, "travel_boots.png", [arr |-> <<"boots">>])) @@
    ("power_treads" :> ItemRecord(63, "power_treads.png", [arr |-> <<"boots">>])) @@
    ("branches" :> ItemRecord(16, "branches.png", Null)) @@
    ("boots" :> ItemRecord(29, "boots.png", Null)) @@
    ("ward_observer" :> ItemRecord(42, "ward_observer.png", Null)) @@
    ("tango" :> ItemRecord(44, "tango.png", Null)) @@
    ("tpscroll" :> ItemRecord(46, "tpscroll.png", Null)) @@
    ("circlet" :> ItemRecord(20, "circlet.png", [arr |-> <<>>]))

PayloadIds == DOMAIN ItemIdsTable \cup {900}

Periods == {"early_game_items", "mid_game_items", "late_game_items"}

\* How the purchase counts of a payload lie over its ids.
CountProfiles == {"rising", "falling", "flat", "mixed"}

CountOf(profile, id) ==
    CASE profile = "rising" -> id
      [] profile = "falling" -> 1000 - id
      [] profile = "flat" -> 50
      [] OTHER -> 10 + (id % 3)

PeriodItems(ids, profile) == [obj |-> [id \in ids |-> CountOf(profile, id)]]

OrdinaryPeriodItems == PeriodItems({1, 36, 48, 16, 29, 44}, "rising")

(***************************************************************************)
(* SortItems, GetItems, MostBought, MostBoughtItems, UpdateItems.          *)
(***************************************************************************)
\* Object.keys of an object whose keys are integers: ascending.
RECURSIVE ObjectKeys(_)
ObjectKeys(keys) ==
    IF keys = {} THEN <<>>
    ELSE LET least == CHOOSE k \in keys : \A j \in keys : k <= j
         IN  <<least>> \o ObjectKeys(keys \ {least})

\* Array.prototype.sort is stable: pair goes behind every pair the comparator
\* second[1] - first[1] does not put behind it.
RECURSIVE InsertSorted(_, _)
InsertSorted(sorted, pair) ==
    IF sorted = <<>> THEN <<pair>>
    ELSE IF pair[2] - Head(sorted)[2] > 0
         THEN <<pair>> \o sorted
         ELSE <<Head(sorted)>> \o InsertSorted(Tail(sorted), pair)

RECURSIVE SortFrom(_, _, _)
SortFrom(items, sorted, k) ==
    IF k > Len(items) THEN sorted
    ELSE SortFrom(items, InsertSorted(sorted, items[k]), k + 1)

SortItems(periodItems) ==
    LET keys == ObjectKeys(DOMAIN periodItems.obj)
        items == [k \in 1..Len(keys) |-> <<keys[k], periodItems.obj[keys[k]]>>]
    IN  SortFrom(items, <<>>, 1)

RECURSIVE GetItemsFrom(_, _)
GetItemsFrom(itemIds, k) ==
    IF k > Len(itemIds) THEN <<>>
    ELSE LET iid == itemIds[k][1]
             item_name == IF iid \in DOMAIN ITEM_IDS.obj
                          THEN ITEM_IDS.obj[iid] ELSE "undefined"
             item_obj == IF item_name \in DOMAIN ITEM_CONSTANTS.obj
                         THEN ITEM_CONSTANTS.obj[item_name] ELSE Undefined
         IN  (IF item_obj # Undefined /\ item_obj # Null THEN <<item_obj>> ELSE <<>>)
             \o GetItemsFrom(itemIds, k + 1)

GetItems(itemIds) == GetItemsFrom(itemIds, 1)

DisplayCount == 5

\* The truth value of an object, an array, null or undefined.
Truthy(v) == v # Null /\ v # Undefined

FilterItems(objectList) ==
    SelectSeq(objectList, LAMBDA item : item.id \in {1, 41, 609} \/ Truthy(item.components))

RECURSIVE PadItems(_, _, _)
PadItems(filteredItems, objectList, i) ==
    IF Len(filteredItems) < DisplayCount
    THEN PadItems(Append(filteredItems,
                         IF i < Len(objectList) THEN objectList[i + 1] ELSE Undefined),
                  objectList, i + 1)
    ELSE filteredItems

ObjectList(period, stats) == GetItems(SortItems(stats[period]))

\* MostBought without its padding loop.
MostBoughtNoPadding(period, stats) == FilterItems(ObjectList(period, stats))

MostBought(period, stats) ==
    LET objectList == ObjectList(period, stats)
    IN  PadItems(FilterItems(objectList), objectList, 0)

MostBoughtItems(openDotaStats) ==
    LET earlyGame == MostBought("early_game_items", openDotaStats)
        midGame == MostBought("mid_game_items", openDotaStats)
        lateGame == MostBought("late_game_items", openDotaStats)
    IN  [early_game |-> slice(earlyGame, 0, DisplayCount),
         mid_game |-> slice(midGame, 0, DisplayCount),
         late_game |-> slice(lateGame, 0, DisplayCount)]

CdnUrl(img) == [src |-> <<"https://cdn.dota2.com/", img>>]

\* The row after the loop, and whether items[i]['img'] threw on the way.
RECURSIVE UpdateItemsFrom(_, _, _)
UpdateItemsFrom(row, items, i) ==
    IF i >= DisplayCount THEN [row |-> row, threw |-> FALSE]
    ELSE IF i >= Len(items) \/ items[i + 1] = Undefined
         THEN [row |-> row, threw |-> TRUE]
         ELSE UpdateItemsFrom([row EXCEPT ![i + 1] = CdnUrl(items[i + 1].img)],
                              items, i + 1)

UpdateItems(row, items) == UpdateItemsFrom(row, items, 0)

(***************************************************************************)
(* The page before window.onload has run.                                  *)
(***************************************************************************)
InitialRow == [i \in 1..DisplayCount |-> Initial]

InitialDom ==
    [hero_name |-> Initial, attribute |-> Initial, winrate |-> Initial,
     hero_image |-> Initial, early_game |-> InitialRow, mid_game |-> InitialRow,
     late_game |-> InitialRow, hero_search |-> <<>>]

PageUntouched ==
    /\ onload = "heroes"
    /\ dom = InitialDom
    /\ calls = <<>>
    /\ picked = Null

(***************************************************************************)
(* Function-level specifications: the inputs are drawn by the initial      *)
(* state and one step applies the function.                                *)
(***************************************************************************)
InitGetHero ==
    /\ HERO_CONSTANTS = Null
    /\ ITEM_CONSTANTS = Null
    /\ ITEM_IDS = Null
    /\ \E roster \in Rosters : HERO_STATS = [arr |-> roster]
    /\ PageUntouched
    /\ arg \in Queries
    /\ ret = Pending

GetHeroCall ==
    /\ ret = Pending
    /\ ret' = GetHero(arg)
    /\ UNCHANGED <<HERO_CONSTANTS, ITEM_CONSTANTS, ITEM_IDS, HERO_STATS, onload, dom,
                   calls, picked, arg>>

SpecGetHero == InitGetHero /\ [][GetHeroCall]_vars

BracketCounts == {c \in (0..MaxPick) \X (0..MaxPick) : c[2] <= c[1]}

InitWinRate ==
    /\ HERO_CONSTANTS = Null
    /\ ITEM_CONSTANTS = Null
    /\ ITEM_IDS = Null
    /\ HERO_STATS = Null
    /\ PageUntouched
    /\ \E counts \in [Brackets -> BracketCounts] :
           arg = [Lion EXCEPT !.pick = [b \in Brackets |-> counts[b][1]],
                              !.win = [b \in Brackets |-> counts[b][2]]]
    /\ ret = Pending

WinRateCall ==
    /\ ret = Pending
    /\ ret' = WinRate(arg)
    /\ UNCHANGED <<HERO_CONSTANTS, ITEM_CONSTANTS, ITEM_IDS, HERO_STATS, onload, dom,
                   calls, picked, arg>>

SpecWinRate == InitWinRate /\ [][WinRateCall]_vars

Payloads ==
    {PeriodItems(ids, profile) :
        ids \in {s \in SUBSET PayloadIds : Cardinality(s) <= MaxPayload},
        profile \in CountProfiles}

InitItems ==
    /\ HERO_CONSTANTS = Null
    /\ ITEM_CONSTANTS = [obj |-> ItemConstantsTable]
    /\ ITEM_IDS = [obj |-> ItemIdsTable]
    /\ HERO_STATS = Null
    /\ PageUntouched
    /\ \E payload \in Payloads, period \in Periods :
           arg = [p \in Periods |-> IF p = period THEN payload ELSE OrdinaryPeriodItems]
    /\ ret = Pending

MostBoughtItemsCall ==
    /\ ret = Pending
    /\ ret' = MostBoughtItems(arg)
    /\ UNCHANGED <<HERO_CONSTANTS, ITEM_CONSTANTS, ITEM_IDS, HERO_STATS, onload, dom,
                   calls, picked, arg>>

SpecItems == InitItems /\ [][MostBoughtItemsCall]_vars

(***************************************************************************)
(* The page: what the endpoints may answer and what the user may type.     *)
(***************************************************************************)
HeroConstantsTable ==
    (91 :> [img |-> "wisp.png"]) @@ (26 :> [img |-> "lion.png"]) @@
    (2 :> [img |-> "axe.png"]) @@ (7 :> [img |-> "ox.png"])

RosterResponses == {<<Lion, Io, Axe>>, <<Axe, Ox>>}

StatsResponses ==
    {[p \in Periods |-> OrdinaryPeriodItems],
     [early_game_items |-> PeriodItems({41, 63, 46, 42, 20, 609}, "falling"),
      mid_game_items |-> PeriodItems({36, 48, 63, 1, 41, 609, 900}, "mixed"),
      late_game_items |-> PeriodItems({36, 16, 901}, "flat")]}

SearchInputs ==
    {<<>>, <<"\t", "I", "o", " ">>, <<"L", "I", "O", "N">>, <<"x">>, <<"z">>}

attr_dict ==
    ("str" :> "strength") @@ ("agi" :> "agility") @@ ("int" :> "intelligence") @@
    ("all" :> "universal")

\* Math.floor(Math.random() * (max - min + 1) + min), Math.random() being
\* numerator / RandDenom, a value of [0, 1).
RandomIntFromInterval(min, max, numerator) ==
    ((numerator * (max - min + 1)) \div RandDenom) + min

(***************************************************************************)
(* UpdatePage up to its suspension on the item-popularity fetch.  Nothing  *)
(* but microtasks runs between the call and the fetch, so no other handler *)
(* can.  The value is the page after the writes and the activation's       *)
(* record: its position, its locals, the elements whose content it has     *)
(* changed so far, its place among the activations that have ended (rank)  *)
(* and the activations that were suspended when it started (during).       *)
(***************************************************************************)
Activation(by, pc, heroName, hero, changed) ==
    [by |-> by, pc |-> pc, heroName |-> heroName, hero |-> hero, items |-> Pending,
     changed |-> changed, rank |-> 0, during |-> {}]

Header(hero, heroConstant) ==
    [hero_name |-> [innerHTML |-> toUpperCase(hero.localized_name)],
     attribute |-> [src |-> <<"images/", attr_dict[hero.primary_attr], ".png">>],
     winrate |-> [innerHTML |-> <<"Winrate: ", WinRate(hero), "%">>],
     hero_image |-> IF heroConstant = Undefined THEN Undefined
                    ELSE CdnUrl(heroConstant.img)]

UpdatePageStart(by, heroName, heroStats, heroConstants, d) ==
    LET hero == GetHeroIn(heroName, heroStats)
    IN  IF hero = TypeError
        THEN [dom |-> d, call |-> Activation(by, "threw", heroName, Null, {})]
        ELSE IF hero = Null
        THEN [dom |-> d, call |-> Activation(by, "alerted", heroName, Null, {})]
        ELSE LET heroConstant == IF hero.id \in DOMAIN heroConstants.obj
                                 THEN heroConstants.obj[hero.id] ELSE Undefined
                 header == Header(hero, heroConstant)
                 written == IF heroConstant = Undefined
                            THEN {"hero_name", "attribute", "winrate"}
                            ELSE {"hero_name", "attribute", "winrate", "hero_image"}
                 after == [f \in DOMAIN d |-> IF f \in written THEN header[f] ELSE d[f]]
                 changed == {f \in written : d[f] # header[f]}
             IN  [dom |-> after,
                  call |-> Activation(by, IF heroConstant = Undefined THEN "threw"
                                          ELSE "fetching", heroName, hero, changed)]

(***************************************************************************)
(* RandomHero: empties the search box, draws an index and calls            *)
(* UpdatePage with the internal name of the hero at that index.  Reading   *)
(* the length of a null roster, or the name of the element one past the    *)
(* end, throws a TypeError.                                                *)
(***************************************************************************)
RandomHeroRun(by, numerator, heroStats, heroConstants, d, p) ==
    LET cleared == [d EXCEPT !.hero_search = <<>>]
    IN  IF heroStats = Null
        THEN [dom |-> cleared, picked |-> p,
              call |-> Activation(by, "threw", <<>>, Null, {})]
        ELSE LET index == RandomIntFromInterval(0, Len(heroStats.arr), numerator)
                 targetHero == IF index < Len(heroStats.arr)
                               THEN heroStats.arr[index + 1] ELSE Undefined
             IN  IF targetHero = Undefined
                 THEN [dom |-> cleared, picked |-> [index |-> index],
                       call |-> Activation(by, "threw", <<>>, Null, {})]
                 ELSE LET heroName == slice(targetHero.name, PrefixLen,
                                            Len(targetHero.name))
                          started == UpdatePageStart(by, heroName, heroStats,
                                                     heroConstants, cleared)
                      IN  [dom |-> started.dom, picked |-> [index |-> index],
                           call |-> started.call]

Fetching == {c \in 1..Len(calls) : calls[c].pc = "fetching"}

Started(call) == Append(calls, [call EXCEPT !.during = Fetching])

(***************************************************************************)
(* window.onload: four fetches one after the other, each cache written     *)
(* when its fetch returns, then RandomHero.  A fetch that fails rejects    *)
(* the handler and the caches behind it stay null.                         *)
(***************************************************************************)
Init ==
    /\ HERO_CONSTANTS = Null
    /\ ITEM_CONSTANTS = Null
    /\ ITEM_IDS = Null
    /\ HERO_STATS = Null
    /\ PageUntouched
    /\ arg = Null
    /\ ret = Null

LoadHeroConstants ==
    /\ onload = "heroes"
    /\ HERO_CONSTANTS' = [obj |-> HeroConstantsTable]
    /\ onload' = "items"
    /\ UNCHANGED <<ITEM_CONSTANTS, ITEM_IDS, HERO_STATS, dom, calls, picked, arg, ret>>

LoadItemConstants ==
    /\ onload = "items"
    /\ ITEM_CONSTANTS' = [obj |-> ItemConstantsTable]
    /\ onload' = "item_ids"
    /\ UNCHANGED <<HERO_CONSTANTS, ITEM_IDS, HERO_STATS, dom, calls, picked, arg, ret>>

LoadItemIds ==
    /\ onload = "item_ids"
    /\ ITEM_IDS' = [obj |-> ItemIdsTable]
    /\ onload' = "heroStats"
    /\ UNCHANGED <<HERO_CONSTANTS, ITEM_CONSTANTS, HERO_STATS, dom, calls, picked, arg, ret>>

LoadHeroStats ==
    /\ onload = "heroStats"
    /\ \E roster \in RosterResponses, numerator \in 0..(RandDenom - 1) :
           LET run == RandomHeroRun("onload", numerator, [arr |-> roster],
                                    HERO_CONSTANTS, dom, picked)
           IN  /\ HERO_STATS' = [arr |-> roster]
               /\ dom' = run.dom
               /\ picked' = run.picked
               /\ calls' = Started(run.call)
    /\ onload' = "done"
    /\ UNCHANGED <<HERO_CONSTANTS, ITEM_CONSTANTS, ITEM_IDS, arg, ret>>

LoadFails ==
    /\ onload \in {"heroes", "items", "item_ids", "heroStats"}
    /\ onload' = "rejected"
    /\ UNCHANGED <<HERO_CONSTANTS, ITEM_CONSTANTS, ITEM_IDS, HERO_STATS, dom, calls,
                   picked, arg, ret>>

(***************************************************************************)
(* The buttons.  The page takes at most MaxCalls clicks.                   *)
(***************************************************************************)
Clicks == Cardinality({c \in 1..Len(calls) : calls[c].by # "onload"})

SearchHero ==
    /\ Clicks < MaxCalls
    /\ \E typed \in SearchInputs, numerator \in 0..(RandDenom - 1) :
           LET heroName == trim(toLowerCase(typed))
               entered == [dom EXCEPT !.hero_search = typed]
           IN  IF heroName = <<>>
               THEN LET run == RandomHeroRun("search", numerator, HERO_STATS,
                                             HERO_CONSTANTS, entered, picked)
                    IN  /\ dom' = run.dom
                        /\ picked' = run.picked
                        /\ calls' = Started(run.call)
               ELSE LET started == UpdatePageStart("search", heroName, HERO_STATS,
                                                   HERO_CONSTANTS, entered)
                    IN  /\ dom' = started.dom
                        /\ picked' = picked
                        /\ calls' = Started(started.call)
    /\ UNCHANGED <<HERO_CONSTANTS, ITEM_CONSTANTS, ITEM_IDS, HERO_STATS, onload, arg, ret>>

RandomHero ==
    /\ Clicks < MaxCalls
    /\ \E numerator \in 0..(RandDenom - 1) :
           LET run == RandomHeroRun("random", numerator, HERO_STATS, HERO_CONSTANTS,
                                    dom, picked)
           IN  /\ dom' = run.dom
               /\ picked' = run.picked
               /\ calls' = Started(run.call)
    /\ UNCHANGED <<HERO_CONSTANTS, ITEM_CONSTANTS, ITEM_IDS, HERO_STATS, onload, arg, ret>>

(***************************************************************************)
(* The item-popularity fetch of an activation returns: MostBoughtItems     *)
(* builds the three lists and UpdatePage writes the three rows, or the     *)
(* fetch fails and the activation is rejected.  The response and its body  *)
(* (fetch, then response.json()) arrive in one step: the activation writes *)
(* nothing between the two.                                                *)
(***************************************************************************)
Ranked == Cardinality({c \in 1..Len(calls) : calls[c].rank > 0})

UpdatePageFinish(call, openDotaStats, d) ==
    LET items == MostBoughtItems(openDotaStats)
        early == UpdateItems(d.early_game, items.early_game)
        mid == IF early.threw THEN [row |-> d.mid_game, threw |-> TRUE]
               ELSE UpdateItems(d.mid_game, items.mid_game)
        late == IF mid.threw THEN [row |-> d.late_game, threw |-> TRUE]
                ELSE UpdateItems(d.late_game, items.late_game)
        after == [d EXCEPT !.early_game = early.row, !.mid_game = mid.row,
                           !.late_game = late.row]
        changed == {f \in {"early_game", "mid_game", "late_game"} : after[f] # d[f]}
    IN  [dom |-> after,
         call |-> [call EXCEPT !.pc = IF late.threw THEN "threw" ELSE "done",
                               !.items = items,
                               !.changed = call.changed \cup changed,
                               !.rank = Ranked + 1]]

ItemPopularityReturns ==
    \E c \in 1..Len(calls), openDotaStats \in StatsResponses :
        /\ calls[c].pc = "fetching"
        /\ LET finish == UpdatePageFinish(calls[c], openDotaStats, dom)
           IN  /\ dom' = finish.dom
               /\ calls' = [calls EXCEPT ![c] = finish.call]
        /\ UNCHANGED <<HERO_CONSTANTS, ITEM_CONSTANTS, ITEM_IDS, HERO_STATS, onload,
                       picked, arg, ret>>

ItemPopularityFails ==
    \E c \in 1..Len(calls) :
        /\ calls[c].pc = "fetching"
        /\ calls' = [calls EXCEPT ![c].pc = "rejected", ![c].rank = Ranked + 1]
        /\ UNCHANGED <<HERO_CONSTANTS, ITEM_CONSTANTS, ITEM_IDS, HERO_STATS, onload, dom,
                       picked, arg, ret>>

Next ==
    \/ LoadHeroConstants
    \/ LoadItemConstants
    \/ LoadItemIds
    \/ LoadHeroStats
    \/ LoadFails
    \/ SearchHero
    \/ RandomHero
    \/ ItemPopularityReturns
    \/ ItemPopularityFails

Spec == Init /\ [][Next]_vars

(***************************************************************************)
(* Properties of the page, under Spec.                                     *)
(***************************************************************************)
Ended == {c \in 1..Len(calls) : calls[c].rank > 0}

Last == CHOOSE c \in Ended : \A e \in Ended : calls[e].rank <= calls[c].rank

RowOfItems(items) == [i \in 1..DisplayCount |-> CdnUrl(items[i].img)]

\* What an activation that ran to completion computed for the page.
PresentedBy(call) ==
    LET header == Header(call.hero, HERO_CONSTANTS.obj[call.hero.id])
    IN  /\ dom.hero_name = header.hero_name
        /\ dom.attribute = header.attribute
        /\ dom.winrate = header.winrate
        /\ dom.hero_image = header.hero_image
        /\ dom.early_game = RowOfItems(call.items.early_game)
        /\ dom.mid_game = RowOfItems(call.items.mid_game)
        /\ dom.late_game = RowOfItems(call.items.late_game)

\* C1: when two activations overlapped and both have run to completion,
\* everything on the page comes from the one that completed last.
C1_LastCompletedPresented ==
    \A a, b \in 1..Len(calls) :
        (/\ a \in calls[b].during
         /\ calls[a].pc = "done"
         /\ calls[b].pc = "done"
         /\ Fetching = {}
         /\ Last \in {a, b})
        => PresentedBy(calls[Last])

AllLoaded ==
    /\ HERO_CONSTANTS # Null
    /\ ITEM_CONSTANTS # Null
    /\ ITEM_IDS # Null
    /\ HERO_STATS # Null

\* C2: a handler runs only once the four caches are written, and a cache
\* that is written is never written again.
C2_LoadedBeforeAnyCall ==
    [][/\ Len(calls') > Len(calls) => AllLoaded'
       /\ HERO_CONSTANTS # Null => HERO_CONSTANTS' = HERO_CONSTANTS
       /\ ITEM_CONSTANTS # Null => ITEM_CONSTANTS' = ITEM_CONSTANTS
       /\ ITEM_IDS # Null => ITEM_IDS' = ITEM_IDS
       /\ HERO_STATS # Null => HERO_STATS' = HERO_STATS]_vars

\* C3: the index RandomHero draws is at least 0 and less than the length of
\* the roster.
C3_IndexInRoster ==
    picked # Null => picked.index >= 0 /\ picked.index < Len(HERO_STATS.arr)

\* C7: an activation that ended with the not-found alert or with a failed
\* item-popularity fetch has changed none of the presented elements.
C7_NoPartialProfile ==
    \A c \in 1..Len(calls) :
        calls[c].pc \in {"alerted", "rejected"} => calls[c].changed = {}

(***************************************************************************)
(* Properties of GetHero, under SpecGetHero.                               *)
(***************************************************************************)
\* A hero the resolver may answer the query with: one whose lower-cased
\* localized name or whose internal name without the namespace prefix contains
\* the query, and for the query "io" only a hero named exactly "io".
Candidate(hero, query) ==
    /\ \/ includes(toLowerCase(hero.localized_name), query)
       \/ includes(SubSeq(hero.name, Len(NamespacePrefix) + 1, Len(hero.name)), query)
    /\ query = StrIo => toLowerCase(hero.localized_name) = StrIo

CandidatePlaces == {k \in 1..Len(HERO_STATS.arr) : Candidate(HERO_STATS.arr[k], arg)}

\* C9: GetHero returns the first hero in roster order that contains the query
\* in its lower-cased localized name or in its internal name without the
\* prefix, null when there is none; for the query "io" heroes not named
\* exactly "io" are passed over.
C9_FirstMatch ==
    ret # Pending =>
        IF CandidatePlaces = {} THEN ret = Null
        ELSE ret = HERO_STATS.arr[CHOOSE k \in CandidatePlaces :
                                      \A j \in CandidatePlaces : k <= j]

\* The query is "io", Lion stands before Io in the roster, and Io is returned.
C9_Witness ==
    /\ ret = Io
    /\ arg = StrIo
    /\ Len(HERO_STATS.arr) >= 2
    /\ HERO_STATS.arr[1] = Lion

(***************************************************************************)
(* Properties of WinRate, under SpecWinRate.                               *)
(***************************************************************************)
\* C8: with no picks at all WinRate reports NoData or a number, never a
\* non-numeric value, and with picks it returns a number from 0 to 100.
C8_WinRateDefined ==
    ret # Pending =>
        IF reduceSum(arg.pick, 1) = 0
        THEN ret.kind \in {"NoData", "number"}
        ELSE ret.kind = "number" /\ ret.hundredths >= 0 /\ ret.hundredths <= 100 * 100

(***************************************************************************)
(* Properties of the item pipeline, under SpecItems.                       *)
(***************************************************************************)
RowOf(period) ==
    CASE period = "early_game_items" -> "early_game"
      [] period = "mid_game_items" -> "mid_game"
      [] OTHER -> "late_game"

\* The ids of a phase's payload that resolve through both tables.
ResolvablePool(period) ==
    {id \in DOMAIN arg[period].obj :
        /\ id \in DOMAIN ITEM_IDS.obj
        /\ ITEM_IDS.obj[id] \in DOMAIN ITEM_CONSTANTS.obj}

PoolRecords(period) == {ITEM_CONSTANTS.obj[ITEM_IDS.obj[id]] : id \in ResolvablePool(period)}

\* C4: the items returned for a phase are pairwise distinct: padding never
\* repeats an item of the filtered portion.
C4_NoDuplicates ==
    ret # Pending =>
        \A period \in Periods :
            LET row == ret[RowOf(period)]
            IN  \A i, j \in 1..Len(row) :
                    (i < j /\ row[i] # Undefined) => row[i] # row[j]

\* C5: a phase whose resolvable pool has at least 5 members gets a list of
\* exactly 5 entries.
C5_FullRow ==
    ret # Pending =>
        \A period \in Periods :
            Cardinality(ResolvablePool(period)) >= 5 => Len(ret[RowOf(period)]) = 5

\* A pool of at least 5 members none of which passes the filter: the whole
\* list is padding.
C5_Witness ==
    /\ ret # Pending
    /\ \E period \in Periods :
           /\ Cardinality(ResolvablePool(period)) >= 5
           /\ FilterItems(ObjectList(period, arg)) = <<>>
           /\ Len(ret[RowOf(period)]) = 5

\* C6: with a pool of fewer than 5 members every entry of the list is a
\* record of the pool, and UpdateItems reads no missing entry.
C6_OnlyRecords ==
    ret # Pending =>
        \A period \in Periods :
            Cardinality(ResolvablePool(period)) < 5 =>
                LET row == ret[RowOf(period)]
                IN  /\ \A i \in 1..Len(row) : row[i] \in PoolRecords(period)
                    /\ Len(row) < 5
                    /\ ~UpdateItems(InitialRow, row).threw

\* What the filter is to keep: the three fixed ids and the items whose
\* components list is present and not empty.
Interesting(item) ==
    \/ item.id \in {1, 41, 609}
    \/ IF item.components = Null THEN FALSE ELSE item.components.arr # <<>>

\* C10: the filter keeps an item if and only if its id is 1, 41 or 609 or its
\* components list is present and not empty.
C10_FilterRule ==
    ret # Pending =>
        \A period \in Periods :
            LET objectList == ObjectList(period, arg)
            IN  FilterItems(objectList) = SelectSeq(objectList, Interesting)

====
